---- MODULE Spec2Model ----
(***************************************************************************)
(* Verification model of the SkillDiffuser repository:                     *)
(*   - the transcript loader  (backend/src/skilldiffuser.py,               *)
(*     load_transcriptions_from_file),                                     *)
(*   - the skill aggregator   (SkillDiffuser.get_skill_summary),           *)
(*   - the batch loops        (SkillDiffuser.analyze_multiple_calls, the   *)
(*     CLI loop of analyze_calls.py main, the /analyze_calls_batch and     *)
(*     /analyze_call endpoints of app.py),                                 *)
(*   - the directory loader   (analyze_calls.py,                           *)
(*     load_transcriptions_from_directory).                                *)
(* Text is a sequence of one-character strings, so that the markers of     *)
(* the file format overlap and split exactly as Python's str methods do.   *)
(***************************************************************************)
EXTENDS Integers, Sequences, FiniteSets, TLC

VARIABLES
    \* the transcript loader
    file,       \* how the input file was written: a sequence of segments
    content,    \* the text of the file, as f.read() returns it
    calls,      \* the list load_transcriptions_from_file returns
    lpc,        \* loader position: "start" -> "loaded"
    \* get_skill_summary, one entry per invocation
    analyses,             \* the list of CallAnalysis passed to every invocation
    spc,                  \* "idle" -> "loop" -> "done"
    spos,                 \* how many (analysis, skill) pairs the loops have visited
    skill_counts,         \* the local dict skill_counts
    skill_effectiveness,  \* the local dict skill_effectiveness
    summary,              \* the dict returned
    \* the batch loops (calls is their input, analyses the list they build)
    entry,        \* "http": POST /analyze_calls_batch, "cli": analyze_calls.py main,
                  \* "single": POST /analyze_call (its request is the one record of calls)
    bpc,          \* "start" -> "loop" -> "returned" -> "done", or "rejected" / "failed";
                  \* "start" -> "answered" / "rejected" / "failed" for "single"
    idx,          \* how many records the loop has passed to analyze_call
    extractions,  \* every invocation of analyze_call so far, with its outcome
    response,     \* what the caller gets: the HTTP response or the CLI's result
    \* load_transcriptions_from_directory (calls is the list it builds)
    directory,    \* the path: whether it exists, and its entries as listed
    dpc,          \* "start" -> "loop" -> "returned"
    dpos          \* how many names of os.listdir the loop has visited

loaderVars == <<file, content, calls, lpc>>
summaryVars == <<analyses, spc, spos, skill_counts, skill_effectiveness, summary>>
batchVars == <<entry, bpc, idx, extractions, response>>
dirVars == <<directory, dpc, dpos>>

vars == <<file, content, calls, lpc,
          analyses, spc, spos, skill_counts, skill_effectiveness, summary,
          entry, bpc, idx, extractions, response,
          directory, dpc, dpos>>

\* ------------------------------------------------------------------ bounds

\* Most segments a generated input file is made of.
MaxSegs == 3

\* Most analyses passed to get_skill_summary.
MaxAnalyses == 3

\* Most Skill entries in the analyses of one input, all analyses together.
MaxSkills == 3

\* Most records in the input of a batch.
MaxCalls == 3

\* Most entries in a directory.
MaxFiles == 3

BoundedSeq(S, n) == UNION {[1..k -> S] : k \in 0..n}

\* --------------------------------------------------- Python's str methods

\* The literal markers of the file format.
CALL_ID_MARKER == <<"-", "-", "-", "C", "A", "L", "L", "_", "I", "D", ":">>
END_MARKER == <<"-", "-", "-", "E", "N", "D", "-", "-", "-">>
DASHES == <<"-", "-", "-">>

\* str.isspace for the characters the model writes.
isspace(c) == c \in {" ", "\n", "\t", "\r"}

\* s[i:i+len(p)] == p, with i counted from 1.
MatchAt(s, p, i) ==
    /\ i + Len(p) - 1 <= Len(s)
    /\ \A k \in 1..Len(p) : s[i + k - 1] = p[k]

\* str.find(p, i): the least position >= i where p occurs, 0 when none.
RECURSIVE find(_, _, _)
find(s, p, i) ==
    IF i + Len(p) - 1 > Len(s) THEN 0
    ELSE IF MatchAt(s, p, i) THEN i
    ELSE find(s, p, i + 1)

\* p in s
contains(s, p) == find(s, p, 1) # 0

\* s.split(sep): every non-overlapping occurrence, left to right.
RECURSIVE split(_, _)
split(s, sep) ==
    LET i == find(s, sep, 1)
    IN  IF i = 0 THEN <<s>>
        ELSE <<SubSeq(s, 1, i - 1)>> \o split(SubSeq(s, i + Len(sep), Len(s)), sep)

\* s.split(sep, 1): at the first occurrence only.
split1(s, sep) ==
    LET i == find(s, sep, 1)
    IN  IF i = 0 THEN <<s>>
        ELSE <<SubSeq(s, 1, i - 1), SubSeq(s, i + Len(sep), Len(s))>>

\* s.replace(old, new): one left-to-right pass, the result is not rescanned.
RECURSIVE replace(_, _, _)
replace(s, old, new) ==
    LET i == find(s, old, 1)
    IN  IF i = 0 THEN s
        ELSE SubSeq(s, 1, i - 1) \o new
                \o replace(SubSeq(s, i + Len(old), Len(s)), old, new)

RECURSIVE lstrip(_)
lstrip(s) == IF s # <<>> /\ isspace(Head(s)) THEN lstrip(Tail(s)) ELSE s

RECURSIVE rstrip(_)
rstrip(s) ==
    IF s # <<>> /\ isspace(s[Len(s)]) THEN rstrip(SubSeq(s, 1, Len(s) - 1)) ELSE s

\* s.strip()
strip(s) == rstrip(lstrip(s))

\* ---------------------------------------------------------------- loader

\* Line 191: the section is kept only when it holds the end marker.
HasEndAlways(section) == TRUE

HasEnd(section) == contains(section, END_MARKER)

\* Line 196: transcript_part.replace('---END---', '').strip()
CleanTranscript(transcript_part) == strip(replace(transcript_part, END_MARKER, <<>>))

\* Lines 192-201: the record made of one section.
ParseSection(section) ==
    LET parts == split1(section, DASHES)
        call_id == strip(parts[1])
        transcript_part == IF Len(parts) > 1 THEN parts[2] ELSE <<>>
        transcript == CleanTranscript(transcript_part)
    IN  [call_id |-> call_id, transcript |-> transcript]

\* Lines 190-201: the loop over call_sections[1:].
RECURSIVE LoadSections(_)
LoadSections(sections) ==
    IF sections = <<>> THEN <<>>
    ELSE (IF HasEnd(Head(sections)) THEN <<ParseSection(Head(sections))>> ELSE <<>>)
            \o LoadSections(Tail(sections))

\* Lines 182-203, from the text read at line 185.
load_transcriptions_from_file(text) ==
    LoadSections(Tail(split(text, CALL_ID_MARKER)))

\* ------------------------------------------------------------ input files

\* An input file is written as a sequence of segments.  A segment is
\*   "section":      ---CALL_ID:<pad><id><pad>---<pad><body><pad>---END---
\*   "unterminated": ---CALL_ID:<pad><id><pad>---<pad><body><pad>
\*   "nosep":        ---CALL_ID:<id><body>---END---   (no --- after the id)
\*   "noise":        text holding no marker (in the body field)
\*   "raw":          a stray marker (in the body field)
\* id and body carry no leading or trailing whitespace of their own: the
\* whitespace around them is the pad.
NoPad == <<>>
WsPad == <<"\n", " ">>

Seg(kind, id, body, pad) == [kind |-> kind, id |-> id, body |-> body, pad |-> pad]

Sections ==
    { Seg("section", <<"A">>, <<"h", "i">>, NoPad),
      Seg("section", <<"B">>, <<"a", " ", "b">>, WsPad),
      Seg("section", <<"A">>, <<>>, NoPad),
      Seg("section", <<>>, <<"h", "i">>, NoPad),
      Seg("section", <<"B">>, <<"x", "-", "-", "-", "y">>, NoPad),
      Seg("section", <<"A">>, <<"-">>, WsPad) }

Unterminated ==
    { Seg("unterminated", <<"A">>, <<"h", "i">>, NoPad),
      Seg("unterminated", <<"B">>, <<"x", "-", "-", "-", "y">>, WsPad) }

NoSeparator ==
    { Seg("nosep", <<"A">>, <<" ", "h", "i">>, NoPad),
      Seg("nosep", <<"B">>, <<>>, NoPad) }

Noise ==
    { Seg("noise", <<>>, <<"\n">>, NoPad),
      Seg("noise", <<>>, <<"j", "k">>, NoPad) }

\* The last two are an end marker written inside the letters of another
\* marker: ---EN---END---D--- and ---CALL---END---_ID:
Raw ==
    { Seg("raw", <<>>, END_MARKER, NoPad),
      Seg("raw", <<>>, DASHES, NoPad),
      Seg("raw", <<>>, <<"-", "-", "-", "E", "N">> \o END_MARKER
                            \o <<"D", "-", "-", "-">>, NoPad),
      Seg("raw", <<>>, <<"-", "-", "-", "C", "A", "L", "L">> \o END_MARKER
                            \o <<"_", "I", "D", ":">>, NoPad) }

Segments == Sections \cup Unterminated \cup NoSeparator \cup Noise \cup Raw

Render(seg) ==
    CASE seg.kind = "section" ->
            CALL_ID_MARKER \o seg.pad \o seg.id \o seg.pad \o DASHES
                \o seg.pad \o seg.body \o seg.pad \o END_MARKER
      [] seg.kind = "unterminated" ->
            CALL_ID_MARKER \o seg.pad \o seg.id \o seg.pad \o DASHES
                \o seg.pad \o seg.body \o seg.pad
      [] seg.kind = "nosep" -> CALL_ID_MARKER \o seg.id \o seg.body \o END_MARKER
      [] OTHER -> seg.body

RECURSIVE RenderFile(_)
RenderFile(segs) ==
    IF segs = <<>> THEN <<>> ELSE Render(Head(segs)) \o RenderFile(Tail(segs))

\* ------------------------------------------- Python float arithmetic (IEEE)

\* A Python float is an IEEE-754 double: 0, or man * 2^(exp - 52) with man a
\* 53-bit integer whose first bit is 1.  man is kept as three limbs,
\* man = hi * 2^36 + mid * 2^18 + lo, with 2^16 <= hi < 2^17 and
\* mid, lo < 2^18, so that every intermediate value fits a 32-bit integer as
\* long as the integers divided and multiplied are below 2^13.  The values
\* met here lie in [0, 2^17): no overflow, no subnormal.
Limb == 2^18
TopLimb == 2^17

FloatZero == [exp |-> 0, hi |-> 0, mid |-> 0, lo |-> 0]

RECURSIVE Pow2(_)
Pow2(k) == IF k <= 0 THEN 1 ELSE 2 * Pow2(k - 1)

\* The number of binary digits of n; 0 for 0.
RECURSIVE BitLength(_)
BitLength(n) == IF n = 0 THEN 0 ELSE 1 + BitLength(n \div 2)

\* float(n) for an integer 0 <= n < 2^17: exact.
FloatOfInt(n) ==
    IF n = 0 THEN FloatZero
    ELSE [exp |-> BitLength(n) - 1, hi |-> n * Pow2(17 - BitLength(n)),
          mid |-> 0, lo |-> 0]

\* The float of significand hi, mid, lo at exponent exp, moved up by one
\* unit in the last place when up holds.
RoundUpIf(up, exp, hi, mid, lo) ==
    LET lo1 == IF up THEN lo + 1 ELSE lo
        mid1 == mid + lo1 \div Limb
        hi1 == hi + mid1 \div Limb
    IN  IF hi1 = TopLimb
        THEN [exp |-> exp + 1, hi |-> TopLimb \div 2, mid |-> 0, lo |-> 0]
        ELSE [exp |-> exp, hi |-> hi1, mid |-> mid1 % Limb, lo |-> lo1 % Limb]

\* The least k >= 0 with h * 2^k >= c, for 1 <= h <= c.
RECURSIVE ShiftTo(_, _)
ShiftTo(h, c) == IF h >= c THEN 0 ELSE 1 + ShiftTo(2 * h, c)

\* h / c for integers 0 <= h <= c, 0 < c < 2^13: the double nearest to the
\* quotient, ties to the even significand (long division, limb by limb).
FloatDiv(h, c) ==
    IF h = 0 THEN FloatZero
    ELSE LET k == ShiftTo(h, c)
             a0 == h * Pow2(k) - c
             hi == (TopLimb \div 2) + (a0 * (TopLimb \div 2)) \div c
             a1 == (a0 * (TopLimb \div 2)) % c
             mid == (a1 * Limb) \div c
             a2 == (a1 * Limb) % c
             lo == (a2 * Limb) \div c
             a3 == (a2 * Limb) % c
             up == 2 * a3 > c \/ (2 * a3 = c /\ lo % 2 = 1)
         IN  RoundUpIf(up, 0 - k, hi, mid, lo)

\* x * n for a float x >= 0 and an integer 1 <= n < 2^13: the exact product
\* rounded to 53 bits, ties to even.
FloatTimesInt(x, n) ==
    IF x = FloatZero THEN FloatZero
    ELSE LET p0 == x.lo * n
             p1 == x.mid * n + p0 \div Limb
             p2 == x.hi * n + p1 \div Limb
             l0 == p0 % Limb
             l1 == p1 % Limb
             e == BitLength(p2) - 17
             cut == Pow2(e)
             lo == l0 \div cut + (l1 % cut) * (Limb \div cut)
             mid == l1 \div cut + (p2 % cut) * (Limb \div cut)
             hi == p2 \div cut
             guard == e > 0 /\ (l0 \div Pow2(e - 1)) % 2 = 1
             sticky == e > 1 /\ l0 % Pow2(e - 1) # 0
             up == guard /\ (sticky \/ lo % 2 = 1)
         IN  RoundUpIf(up, x.exp + e, hi, mid, lo)

\* ------------------------------------------------------------ aggregator

\* A Python dict is a function on its keys; {} is the function on no key.
EmptyDict == [n \in {} |-> 0]

\* d[key] = v
Put(d, key, v) == [n \in DOMAIN d \cup {key} |-> IF n = key THEN v ELSE d[n]]

\* list.count(v)
count(list, v) == Cardinality({i \in 1..Len(list) : list[i] = v})

\* Lines 135-140 with the skill name lower-cased before it is used as a key.
CountSkillFoldCase(loc, skill) ==
    LET skill_name == IF skill.name = "Rapport" THEN "rapport" ELSE skill.name
        c0 == IF skill_name \notin DOMAIN loc.skill_counts
                THEN Put(loc.skill_counts, skill_name, 0) ELSE loc.skill_counts
        e0 == IF skill_name \notin DOMAIN loc.skill_counts
                THEN Put(loc.skill_effectiveness, skill_name, <<>>)
                ELSE loc.skill_effectiveness
    IN  [skill_counts |-> Put(c0, skill_name, c0[skill_name] + 1),
         skill_effectiveness |->
            Put(e0, skill_name, Append(e0[skill_name], skill.effectiveness))]

\* Lines 135-140 with line 140 assigning the rating instead of appending it.
CountSkillLastRating(loc, skill) ==
    LET skill_name == skill.name
        c0 == IF skill_name \notin DOMAIN loc.skill_counts
                THEN Put(loc.skill_counts, skill_name, 0) ELSE loc.skill_counts
    IN  [skill_counts |-> Put(c0, skill_name, c0[skill_name] + 1),
         skill_effectiveness |->
            Put(loc.skill_effectiveness, skill_name, <<skill.effectiveness>>)]

\* Lines 134-140: one iteration of the inner loop, on the two local dicts.
CountSkill(loc, skill) ==
    LET skill_name == skill.name
        c0 == IF skill_name \notin DOMAIN loc.skill_counts
                THEN Put(loc.skill_counts, skill_name, 0) ELSE loc.skill_counts
        e0 == IF skill_name \notin DOMAIN loc.skill_counts
                THEN Put(loc.skill_effectiveness, skill_name, <<>>)
                ELSE loc.skill_effectiveness
    IN  [skill_counts |-> Put(c0, skill_name, c0[skill_name] + 1),
         skill_effectiveness |->
            Put(e0, skill_name, Append(e0[skill_name], skill.effectiveness))]

\* Lines 146-148 with every value that is not high or medium counted as low.
DistributionRestIsLow(effectiveness_values) ==
    [high |-> count(effectiveness_values, "high"),
     medium |-> count(effectiveness_values, "medium"),
     low |-> Len(effectiveness_values) - count(effectiveness_values, "high")
                - count(effectiveness_values, "medium")]

\* Lines 146-148 and 152-156: the three counts of exact matches.
Distribution(effectiveness_values) ==
    [high |-> count(effectiveness_values, "high"),
     medium |-> count(effectiveness_values, "medium"),
     low |-> count(effectiveness_values, "low")]

\* Line 157 with floor division (//) in place of true division.
AvgEffectivenessFloor(high_count, counts) ==
    IF counts > 0 THEN FloatOfInt(high_count \div counts) ELSE FloatZero

\* Line 157: high_count / counts if counts > 0 else 0, a float division.
AvgEffectiveness(high_count, counts) ==
    IF counts > 0 THEN FloatDiv(high_count, counts) ELSE FloatZero

\* Lines 143-158: the statistics of every key of skill_counts.
SkillStats(counts, effectiveness) ==
    [skill_name \in DOMAIN counts |->
        LET effectiveness_values == effectiveness[skill_name]
            dist == Distribution(effectiveness_values)
        IN  [frequency |-> counts[skill_name],
             effectiveness_distribution |-> dist,
             avg_effectiveness |-> AvgEffectiveness(dist.high, counts[skill_name])]]

\* Line 161 counting only the analyses that hold a skill.
TotalCallsWithSkills(an) == Cardinality({i \in 1..Len(an) : an[i].skills # <<>>})

\* Line 161: len(analyses)
TotalCalls(an) == Len(an)

\* Lines 160-164: the dict returned.
BuildSummary(an, counts, effectiveness) ==
    [total_calls_analyzed |-> TotalCalls(an),
     unique_skills_found |-> Cardinality(DOMAIN counts),
     skill_statistics |-> SkillStats(counts, effectiveness)]

\* Lines 132-133: the (analysis, skill) pairs in the order the loops visit them.
RECURSIVE SkillsInOrder(_)
SkillsInOrder(an) ==
    IF an = <<>> THEN <<>> ELSE Head(an).skills \o SkillsInOrder(Tail(an))

\* Lines 129-130: the two local dicts, empty.
EmptyLocals == [skill_counts |-> EmptyDict, skill_effectiveness |-> EmptyDict]

RECURSIVE CountSkills(_, _)
CountSkills(loc, skills) ==
    IF skills = <<>> THEN loc
    ELSE CountSkills(CountSkill(loc, Head(skills)), Tail(skills))

\* Lines 119-164 as one function of its argument.
get_skill_summary(an) ==
    LET loc == CountSkills(EmptyLocals, SkillsInOrder(an))
    IN  BuildSummary(an, loc.skill_counts, loc.skill_effectiveness)

\* ----------------------------------------------------- aggregator inputs

\* The Skill entries the model draws from: name and effectiveness are the
\* fields get_skill_summary reads.  "High" is a rating outside the three
\* recognized labels, "rapport" a second name that differs only in case.
SkillValues ==
    { [name |-> "Rapport", effectiveness |-> "high"],
      [name |-> "Rapport", effectiveness |-> "low"],
      [name |-> "Rapport", effectiveness |-> "High"],
      [name |-> "rapport", effectiveness |-> "medium"] }

RECURSIVE Sum(_)
Sum(ns) == IF ns = <<>> THEN 0 ELSE Head(ns) + Sum(Tail(ns))

\* The analyses whose skills lists have the lengths lens and hold, in order,
\* the skills of flat.
RECURSIVE Chop(_, _)
Chop(flat, lens) ==
    IF lens = <<>> THEN <<>>
    ELSE <<[call_id |-> "CALL", skills |-> SubSeq(flat, 1, Head(lens))]>>
            \o Chop(SubSeq(flat, Head(lens) + 1, Len(flat)), Tail(lens))

\* One longer input: a single call with 22 entries of one skill, 15 of them
\* rated "high".  It is the shortest input on which the rounding of the
\* stored quotient shows in arithmetic done with it.
LongInput ==
    <<[call_id |-> "CALL",
       skills |-> [k \in 1..22 |->
                    [name |-> "Rapport",
                     effectiveness |-> IF k <= 15 THEN "high" ELSE "low"]]]>>

SummaryIdle ==
    /\ spc = [t \in {1, 2} |-> "idle"]
    /\ spos = [t \in {1, 2} |-> 0]
    /\ skill_counts = [t \in {1, 2} |-> EmptyDict]
    /\ skill_effectiveness = [t \in {1, 2} |-> EmptyDict]
    /\ summary = [t \in {1, 2} |-> EmptyDict]

\* ------------------------------------------------------------ extraction

\* What a caller holds before any response, and the parts a response lacks.
NoResponse == [status |-> "none", analyses |-> <<>>, summary |-> EmptyDict]

BatchIdle ==
    /\ entry = "none"
    /\ bpc = "start"
    /\ idx = 0
    /\ extractions = <<>>
    /\ response = NoResponse

\* The skills lists an analysis returned by the language model may hold.
ModelSkillLists ==
    { <<>>, <<[name |-> "Rapport", effectiveness |-> "high"]>> }

\* skilldiffuser.py lines 93-101: analyze_call either raises (the chain, the
\* JSON parser or CallAnalysis(**result) fails) or returns the CallAnalysis
\* the model's answer parses into, whose call_id is the answer's own field.
AnalyzeCallOutcomes(call_id, transcript) ==
    {[ok |-> FALSE, analysis |-> [call_id |-> <<>>, skills |-> <<>>]]}
    \cup {[ok |-> TRUE, analysis |-> [call_id |-> c, skills |-> sk]] :
            c \in {call_id, <<"Z">>}, sk \in ModelSkillLists}

\* The records a batch is made of; one has no identifier, one no transcript.
RecordValues ==
    { [call_id |-> <<"A">>, transcript |-> <<"h", "i">>],
      [call_id |-> <<"B">>, transcript |-> <<"y", "o">>],
      [call_id |-> <<>>, transcript |-> <<"h", "i">>],
      [call_id |-> <<"A">>, transcript |-> <<>>] }

\* Line 116 with the analysis put at the front of the list.
AppendResultFront(results, analysis) == <<analysis>> \o results

\* skilldiffuser.py line 116: results.append(analysis)
AppendResult(results, analysis) == Append(results, analysis)

\* The exception answered with what the loop had built before it: the list
\* without the failed record, and its summary.
ExceptionResponsePartial(status) ==
    [status |-> "200", analyses |-> analyses,
     summary |-> get_skill_summary(analyses)]

\* What the caller gets when analyze_call raises.  app.py lines 128-129: the
\* handler answers 500 with the error alone.  analyze_calls.py has no handler
\* around line 168: the process ends with the traceback, before lines 173-179.
ExceptionResponse(status) == [NoResponse EXCEPT !.status = status]

\* The entry of the log for one invocation of analyze_call.
Extraction(call, out) ==
    [call_id |-> call.call_id, transcript |-> call.transcript,
     ok |-> out.ok, analysis |-> out.analysis]

\* --------------------------------------------------------- the directory

\* str.endswith, with the suffix found anywhere in the string.
endswithAnywhere(s, suffix) == contains(s, suffix)

\* str.endswith(suffix)
endswith(s, suffix) ==
    /\ Len(s) >= Len(suffix)
    /\ SubSeq(s, Len(s) - Len(suffix) + 1, Len(s)) = suffix

TXT == <<".", "t", "x", "t">>

\* Names of directory entries: a.txt, b.txt, .txt, atxt, a.txt~
FileNames ==
    { <<"a">> \o TXT, <<"b">> \o TXT, TXT, <<"a", "t", "x", "t">>,
      <<"a">> \o TXT \o <<"~">> }

\* Texts of the files: two sections, one section, no section.
FileTexts ==
    { RenderFile(<<Seg("section", <<"A">>, <<"h", "i">>, NoPad),
                   Seg("noise", <<>>, <<"\n">>, NoPad),
                   Seg("section", <<"B">>, <<"a", " ", "b">>, WsPad)>>),
      RenderFile(<<Seg("section", <<"C">>, <<"o", "k">>, NoPad)>>),
      RenderFile(<<Seg("unterminated", <<"A">>, <<"h", "i">>, NoPad)>>) }

DirEntries == [name : FileNames, text : FileTexts]

\* The listings os.listdir may return: each name once, in any order.
Listings ==
    { l \in BoundedSeq(DirEntries, MaxFiles) :
        \A i, j \in 1..Len(l) : l[i].name = l[j].name => i = j }

MissingDirectory == [exists |-> FALSE, entries |-> <<>>]

DirIdle ==
    /\ directory = MissingDirectory
    /\ dpc = "start"
    /\ dpos = 0

\* ------------------------------------------------------ loader: the machine

LoaderIdle ==
    /\ file = <<>>
    /\ content = <<>>
    /\ calls = <<>>
    /\ lpc = "start"

InitLoader ==
    /\ file \in BoundedSeq(Segments, MaxSegs)
    /\ content = RenderFile(file)
    /\ calls = <<>>
    /\ lpc = "start"
    /\ analyses = <<>>
    /\ SummaryIdle
    /\ BatchIdle
    /\ DirIdle

\* load_transcriptions_from_file(file_path), lines 167-203.
LoadFile ==
    /\ lpc = "start"
    /\ calls' = load_transcriptions_from_file(content)
    /\ lpc' = "loaded"
    /\ UNCHANGED <<file, content>>
    /\ UNCHANGED summaryVars
    /\ UNCHANGED batchVars
    /\ UNCHANGED dirVars

NextLoader == LoadFile

SpecLoader == InitLoader /\ [][NextLoader]_vars

\* -------------------------------------------------- aggregator: the machine

\* Two invocations of get_skill_summary on the same list of analyses, which
\* may run one after the other or interleaved.  Each has its own locals.
\* Invocation 1 is the one that starts first.
Invocations == {1, 2}

InitSummary ==
    /\ LoaderIdle
    /\ \/ \E flat \in BoundedSeq(SkillValues, MaxSkills) :
            \E lens \in BoundedSeq(0..MaxSkills, MaxAnalyses) :
                /\ Sum(lens) = Len(flat)
                /\ analyses = Chop(flat, lens)
       \/ analyses = LongInput
    /\ SummaryIdle
    /\ BatchIdle
    /\ DirIdle

\* Lines 129-130: the invocation starts with two empty dicts.
SummaryBegin(t) ==
    /\ spc[t] = "idle"
    /\ t = 2 => spc[1] # "idle"
    /\ spc' = [spc EXCEPT ![t] = "loop"]
    /\ spos' = [spos EXCEPT ![t] = 0]
    /\ skill_counts' = [skill_counts EXCEPT ![t] = EmptyLocals.skill_counts]
    /\ skill_effectiveness' =
            [skill_effectiveness EXCEPT ![t] = EmptyLocals.skill_effectiveness]
    /\ UNCHANGED <<analyses, summary>>
    /\ UNCHANGED loaderVars
    /\ UNCHANGED dirVars
    /\ UNCHANGED batchVars

\* Lines 132-140: the loops visit the next skill.
SummaryCount(t) ==
    /\ spc[t] = "loop"
    /\ spos[t] < Len(SkillsInOrder(analyses))
    /\ LET loc == CountSkill([skill_counts |-> skill_counts[t],
                              skill_effectiveness |-> skill_effectiveness[t]],
                             SkillsInOrder(analyses)[spos[t] + 1])
       IN  /\ skill_counts' = [skill_counts EXCEPT ![t] = loc.skill_counts]
           /\ skill_effectiveness' =
                [skill_effectiveness EXCEPT ![t] = loc.skill_effectiveness]
    /\ spos' = [spos EXCEPT ![t] = @ + 1]
    /\ UNCHANGED <<analyses, spc, summary>>
    /\ UNCHANGED loaderVars
    /\ UNCHANGED dirVars
    /\ UNCHANGED batchVars

\* Lines 143-164: the loops are over, the statistics are built and returned.
SummaryReturn(t) ==
    /\ spc[t] = "loop"
    /\ spos[t] = Len(SkillsInOrder(analyses))
    /\ summary' = [summary EXCEPT
                    ![t] = BuildSummary(analyses, skill_counts[t], skill_effectiveness[t])]
    /\ spc' = [spc EXCEPT ![t] = "done"]
    /\ UNCHANGED <<analyses, spos, skill_counts, skill_effectiveness>>
    /\ UNCHANGED loaderVars
    /\ UNCHANGED dirVars
    /\ UNCHANGED batchVars

NextSummary ==
    \E t \in Invocations : SummaryBegin(t) \/ SummaryCount(t) \/ SummaryReturn(t)

SpecSummary == InitSummary /\ [][NextSummary]_vars

\* --------------------------------------------- directory loader: the machine

InitDirectory ==
    /\ LoaderIdle
    /\ analyses = <<>>
    /\ SummaryIdle
    /\ BatchIdle
    /\ directory \in {MissingDirectory} \cup [exists : {TRUE}, entries : Listings]
    /\ dpc = "start"
    /\ dpos = 0

\* analyze_calls.py lines 28-32: the list starts empty; a path that does not
\* exist is reported and the empty list returned.
DirectoryBegin ==
    /\ dpc = "start"
    /\ calls' = <<>>
    /\ dpc' = IF ~directory.exists THEN "returned" ELSE "loop"
    /\ UNCHANGED <<directory, dpos>>
    /\ UNCHANGED <<file, content, lpc>>
    /\ UNCHANGED summaryVars
    /\ UNCHANGED batchVars

\* analyze_calls.py lines 34-39: the next name of os.listdir; a name ending
\* in .txt has its file loaded and the records appended.
DirectoryStep ==
    /\ dpc = "loop"
    /\ dpos < Len(directory.entries)
    /\ LET filename == directory.entries[dpos + 1].name
           file_calls == load_transcriptions_from_file(directory.entries[dpos + 1].text)
       IN  calls' = IF endswith(filename, TXT) THEN calls \o file_calls ELSE calls
    /\ dpos' = dpos + 1
    /\ UNCHANGED <<directory, dpc>>
    /\ UNCHANGED <<file, content, lpc>>
    /\ UNCHANGED summaryVars
    /\ UNCHANGED batchVars

\* analyze_calls.py line 41: the loop is over, calls is returned.
DirectoryReturn ==
    /\ dpc = "loop"
    /\ dpos = Len(directory.entries)
    /\ dpc' = "returned"
    /\ UNCHANGED <<directory, dpos>>
    /\ UNCHANGED loaderVars
    /\ UNCHANGED summaryVars
    /\ UNCHANGED batchVars

NextDirectory == DirectoryBegin \/ DirectoryStep \/ DirectoryReturn

SpecDirectory == InitDirectory /\ [][NextDirectory]_vars

\* ------------------------------------------------- batch loops: the machine

InitBatch ==
    /\ file = <<>>
    /\ content = <<>>
    /\ lpc = "start"
    /\ calls \in BoundedSeq(RecordValues, MaxCalls)
    /\ analyses = <<>>
    /\ SummaryIdle
    /\ entry \in {"http", "cli", "single"}
    /\ entry = "single" => Len(calls) = 1
    /\ bpc = "start"
    /\ idx = 0
    /\ extractions = <<>>
    /\ response = NoResponse
    /\ DirIdle

\* app.py lines 97-104: an empty batch is answered 400; otherwise
\* analyze_multiple_calls is entered (skilldiffuser.py line 113).
HttpBatchBegin ==
    /\ entry = "http"
    /\ bpc = "start"
    /\ IF calls = <<>>
       THEN /\ bpc' = "rejected"
            /\ response' = [NoResponse EXCEPT !.status = "400"]
       ELSE /\ bpc' = "loop"
            /\ UNCHANGED response
    /\ UNCHANGED <<analyses, idx, extractions, entry>>
    /\ UNCHANGED <<loaderVars, dirVars, spc, spos, skill_counts, skill_effectiveness, summary>>

\* skilldiffuser.py lines 114-116: one iteration of analyze_multiple_calls.
\* An exception of analyze_call leaves the function and is caught at app.py
\* lines 128-129, which answer 500 with the error alone.
AnalyzeMultipleStep ==
    /\ entry = "http"
    /\ bpc = "loop"
    /\ idx < Len(calls)
    /\ \E out \in AnalyzeCallOutcomes(calls[idx + 1].call_id, calls[idx + 1].transcript) :
        /\ extractions' = Append(extractions, Extraction(calls[idx + 1], out))
        /\ IF out.ok
           THEN /\ analyses' = AppendResult(analyses, out.analysis)
                /\ idx' = idx + 1
                /\ UNCHANGED <<bpc, response>>
           ELSE /\ bpc' = "failed"
                /\ response' = ExceptionResponse("500")
                /\ UNCHANGED <<analyses, idx>>
    /\ UNCHANGED entry
    /\ UNCHANGED <<loaderVars, dirVars, spc, spos, skill_counts, skill_effectiveness, summary>>

\* skilldiffuser.py line 117: the loop is over, results is returned.
AnalyzeMultipleReturn ==
    /\ entry = "http"
    /\ bpc = "loop"
    /\ idx = Len(calls)
    /\ bpc' = "returned"
    /\ UNCHANGED <<analyses, idx, extractions, response, entry>>
    /\ UNCHANGED <<loaderVars, dirVars, spc, spos, skill_counts, skill_effectiveness, summary>>

\* app.py lines 105-127: the summary of the analyses, and the 200 response.
HttpBatchRespond ==
    /\ entry = "http"
    /\ bpc = "returned"
    /\ response' = [status |-> "200", analyses |-> analyses,
                    summary |-> get_skill_summary(analyses)]
    /\ bpc' = "done"
    /\ UNCHANGED <<analyses, idx, extractions, entry>>
    /\ UNCHANGED <<loaderVars, dirVars, spc, spos, skill_counts, skill_effectiveness, summary>>

\* analyze_calls.py lines 157-165: no call, exit(1); otherwise the loop starts.
MainBegin ==
    /\ entry = "cli"
    /\ bpc = "start"
    /\ IF calls = <<>>
       THEN /\ bpc' = "rejected"
            /\ response' = [NoResponse EXCEPT !.status = "exit 1"]
       ELSE /\ bpc' = "loop"
            /\ UNCHANGED response
    /\ UNCHANGED <<analyses, idx, extractions, entry>>
    /\ UNCHANGED <<loaderVars, dirVars, spc, spos, skill_counts, skill_effectiveness, summary>>

\* analyze_calls.py lines 166-169: one iteration of the loop of main.  An
\* exception of analyze_call is caught nowhere: the process ends with a
\* traceback and writes no output file.
MainAnalyzeStep ==
    /\ entry = "cli"
    /\ bpc = "loop"
    /\ idx < Len(calls)
    /\ \E out \in AnalyzeCallOutcomes(calls[idx + 1].call_id, calls[idx + 1].transcript) :
        /\ extractions' = Append(extractions, Extraction(calls[idx + 1], out))
        /\ IF out.ok
           THEN /\ analyses' = Append(analyses, out.analysis)
                /\ idx' = idx + 1
                /\ UNCHANGED <<bpc, response>>
           ELSE /\ bpc' = "failed"
                /\ response' = ExceptionResponse("traceback")
                /\ UNCHANGED <<analyses, idx>>
    /\ UNCHANGED entry
    /\ UNCHANGED <<loaderVars, dirVars, spc, spos, skill_counts, skill_effectiveness, summary>>

\* analyze_calls.py lines 171-181: summary, printed and saved with the analyses.
MainFinish ==
    /\ entry = "cli"
    /\ bpc = "loop"
    /\ idx = Len(calls)
    /\ response' = [status |-> "saved", analyses |-> analyses,
                    summary |-> get_skill_summary(analyses)]
    /\ bpc' = "done"
    /\ UNCHANGED <<analyses, idx, extractions, entry>>
    /\ UNCHANGED <<loaderVars, dirVars, spc, spos, skill_counts, skill_effectiveness, summary>>

\* app.py lines 57-82, the /analyze_call endpoint: a missing or empty call_id
\* or transcript is answered 400 before analyze_call; otherwise the analysis
\* is answered 200, an exception 500.
HttpAnalyzeCall ==
    /\ entry = "single"
    /\ bpc = "start"
    /\ LET call_id == calls[1].call_id
           transcript == calls[1].transcript
       IN  IF call_id = <<>> \/ transcript = <<>>
           THEN /\ bpc' = "rejected"
                /\ response' = [NoResponse EXCEPT !.status = "400"]
                /\ UNCHANGED extractions
           ELSE \E out \in AnalyzeCallOutcomes(call_id, transcript) :
                /\ extractions' = Append(extractions, Extraction(calls[1], out))
                /\ IF out.ok
                   THEN /\ bpc' = "answered"
                        /\ response' = [status |-> "200",
                                        analyses |-> <<out.analysis>>,
                                        summary |-> EmptyDict]
                   ELSE /\ bpc' = "failed"
                        /\ response' = ExceptionResponse("500")
    /\ UNCHANGED <<analyses, idx, entry>>
    /\ UNCHANGED <<loaderVars, dirVars, spc, spos, skill_counts, skill_effectiveness, summary>>

NextBatch ==
    \/ HttpAnalyzeCall
    \/ HttpBatchBegin
    \/ AnalyzeMultipleStep
    \/ AnalyzeMultipleReturn
    \/ HttpBatchRespond
    \/ MainBegin
    \/ MainAnalyzeStep
    \/ MainFinish

SpecBatch == InitBatch /\ [][NextBatch]_vars

\* The records the sections of a file stand for: identifier and body of each
\* "section" segment, in file order, without their padding.
RECURSIVE Expected(_)
Expected(segs) ==
    IF segs = <<>> THEN <<>>
    ELSE (IF Head(segs).kind = "section"
            THEN <<[call_id |-> Head(segs).id, transcript |-> Head(segs).body]>>
            ELSE <<>>) \o Expected(Tail(segs))

Kinds(segs) == {segs[i].kind : i \in 1..Len(segs)}

IsWhitespace(s) == \A i \in 1..Len(s) : isspace(s[i])

\* ----------------------------------------------------------- loader claims

OnlyKinds(ks) == Kinds(file) \subseteq ks

NoiseIsWhitespace ==
    \A i \in 1..Len(file) : file[i].kind = "noise" => IsWhitespace(file[i].body)

\* C1: a file made of well-formed sections with whitespace or noise text
\* before, between and after them loads as exactly the sections' records, in
\* file order, each identifier and body changed only by stripping (no noise
\* text in any record).
C1_RoundTripWithNoise ==
    (lpc = "loaded" /\ OnlyKinds({"section", "noise"})) => calls = Expected(file)

\* C2: a section with no end marker before the next ---CALL_ID: (or the end
\* of the file) gives no record, and every well-formed section of the file is
\* still returned with its own identifier and body, in order.
C2_UnterminatedDropped ==
    (/\ lpc = "loaded"
     /\ OnlyKinds({"section", "unterminated", "noise"})
     /\ NoiseIsWhitespace
     /\ "unterminated" \in Kinds(file))
    => calls = Expected(file)

\* An unterminated section, then a well-formed one, loaded as one record.
C2_Witness ==
    /\ lpc = "loaded"
    /\ Len(file) = 3
    /\ file[1].kind = "unterminated"
    /\ file[2].kind = "section"
    /\ file[3].kind = "unterminated"
    /\ calls = <<[call_id |-> file[2].id, transcript |-> file[2].body]>>

\* C3: a section with an identifier and an end marker but no --- between the
\* identifier and the body loads as a record whose transcript is empty.
C3_NoSeparatorEmptyTranscript ==
    (lpc = "loaded" /\ OnlyKinds({"nosep"}))
    => /\ Len(calls) = Len(file)
       /\ \A i \in 1..Len(calls) : calls[i].transcript = <<>>

\* C4: every record returned has a non-empty call_id.
C4_CallIdNonEmpty ==
    lpc = "loaded" => \A i \in 1..Len(calls) : calls[i].call_id # <<>>

\* ------------------------------------------------------- aggregator claims

\* The positions <<i, j>> of the Skill entries of the input.
Positions ==
    UNION {{<<i, j>> : j \in 1..Len(analyses[i].skills)} : i \in 1..Len(analyses)}

\* The positions of the Skill entries named S.
Occurrences(S) == {p \in Positions : analyses[p[1]].skills[p[2]].name = S}

Rating(p) == analyses[p[1]].skills[p[2]].effectiveness

NamesInInput == {analyses[p[1]].skills[p[2]].name : p \in Positions}

Recognized == {"high", "medium", "low"}

Done(t) == spc[t] = "done"

Stats(t) == summary[t].skill_statistics

Buckets(st) ==
    st.effectiveness_distribution.high + st.effectiveness_distribution.medium
        + st.effectiveness_distribution.low

\* C5: the keys of skill_statistics are exactly the distinct skill names of
\* the input (case-sensitive), the frequency of a name is the number of Skill
\* entries with that name, and unique_skills_found is the number of keys.
C5_KeysAndFrequencies ==
    \A t \in Invocations : Done(t) =>
        /\ DOMAIN Stats(t) = NamesInInput
        /\ \A S \in DOMAIN Stats(t) : Stats(t)[S].frequency = Cardinality(Occurrences(S))
        /\ summary[t].unique_skills_found = Cardinality(DOMAIN Stats(t))

\* Both spellings of the name occur and are counted apart.
C5_Witness ==
    /\ Done(1)
    /\ DOMAIN Stats(1) = {"Rapport", "rapport"}
    /\ Stats(1)["Rapport"].frequency = 2
    /\ Stats(1)["rapport"].frequency = 1
    /\ summary[1].unique_skills_found = 2

\* C6: for every skill high + medium + low <= frequency, with equality
\* exactly when every occurrence is rated "high", "medium" or "low"; an
\* occurrence with any other rating counts in frequency and in no bucket.
C6_BucketsWithinFrequency ==
    \A t \in Invocations : Done(t) =>
        \A S \in DOMAIN Stats(t) :
            /\ Buckets(Stats(t)[S]) <= Stats(t)[S].frequency
            /\ (Buckets(Stats(t)[S]) = Stats(t)[S].frequency)
                    <=> (\A p \in Occurrences(S) : Rating(p) \in Recognized)
            /\ Stats(t)[S].frequency - Buckets(Stats(t)[S])
                    = Cardinality({p \in Occurrences(S) : Rating(p) \notin Recognized})

\* A skill with an unrecognized rating: counted in frequency, in no bucket.
C6_Witness ==
    /\ Done(1)
    /\ "Rapport" \in DOMAIN Stats(1)
    /\ Stats(1)["Rapport"].frequency = 3
    /\ Buckets(Stats(1)["Rapport"]) = 2
    /\ \E p \in Occurrences("Rapport") : Rating(p) = "High"

Highs(S) == Cardinality({p \in Occurrences(S) : Rating(p) = "high"})

\* 0 <= x <= 1 for a float x >= 0.
InUnitInterval(x) ==
    \/ x = FloatZero
    \/ x.exp < 0
    \/ x = FloatOfInt(1)

\* x is the double nearest to h / c (1 <= h <= c): with r = h * 2^(-exp),
\* the exact difference man * c - r * 2^52 is at most c / 2 in size.  The
\* product man * c is taken limb by limb.
NearestDouble(x, h, c) ==
    LET p0 == x.lo * c
        p1 == x.mid * c + p0 \div Limb
        p2 == x.hi * c + p1 \div Limb
        top == p2 - h * Pow2(0 - x.exp) * (TopLimb \div 2)
    IN  /\ x.exp <= 0
        /\ TopLimb \div 2 <= x.hi
        /\ x.hi < TopLimb
        /\ \/ top = 0 /\ p1 % Limb = 0 /\ 2 * (p0 % Limb) <= c
           \/ top = -1 /\ p1 % Limb = Limb - 1 /\ 2 * (Limb - (p0 % Limb)) <= c

\* C7 (as claimed): avg_effectiveness is exactly the fraction high_count /
\* frequency, so that avg_effectiveness * frequency == high_count; it lies
\* in [0, 1], is 0 for a skill never rated "high", and no entry has
\* frequency 0.
C7_AvgTimesFrequencyIsHigh ==
    \A t \in Invocations : Done(t) =>
        \A S \in DOMAIN Stats(t) :
            LET st == Stats(t)[S]
            IN  /\ st.frequency > 0
                /\ FloatTimesInt(st.avg_effectiveness, st.frequency)
                        = FloatOfInt(Highs(S))
                /\ InUnitInterval(st.avg_effectiveness)
                /\ (Highs(S) = 0 => st.avg_effectiveness = FloatZero)

\* C7 (amended): avg_effectiveness is the float nearest to the fraction
\* high_count / frequency, where high_count is the number of occurrences
\* rated "high"; it lies in [0, 1], is 0 exactly for a skill never rated
\* "high", and no entry has frequency 0.
C7_AvgIsNearestFloat ==
    \A t \in Invocations : Done(t) =>
        \A S \in DOMAIN Stats(t) :
            LET st == Stats(t)[S]
            IN  /\ st.frequency > 0
                /\ st.frequency = Cardinality(Occurrences(S))
                /\ st.effectiveness_distribution.high = Highs(S)
                /\ InUnitInterval(st.avg_effectiveness)
                /\ (Highs(S) = 0 <=> st.avg_effectiveness = FloatZero)
                /\ (Highs(S) > 0 =>
                        NearestDouble(st.avg_effectiveness, Highs(S), st.frequency))

\* A skill rated "high" in one of its three occurrences: the average is the
\* float of 1/3, 0x15555555555555 * 2^-54.
C7_Witness ==
    /\ Done(2)
    /\ "Rapport" \in DOMAIN Stats(2)
    /\ Stats(2)["Rapport"].frequency = 3
    /\ Stats(2)["Rapport"].effectiveness_distribution.high = 1
    /\ Stats(2)["Rapport"].avg_effectiveness
            = [exp |-> -2, hi |-> 87381, mid |-> 87381, lo |-> 87381]

\* C8: total_calls_analyzed is the number of analyses passed, those with no
\* skill included; the empty input gives 0, 0 and an empty skill_statistics.
C8_TotalCalls ==
    \A t \in Invocations : Done(t) =>
        /\ summary[t].total_calls_analyzed = Len(analyses)
        /\ analyses = <<>> =>
                summary[t] = [total_calls_analyzed |-> 0,
                              unique_skills_found |-> 0,
                              skill_statistics |-> EmptyDict]

\* Three analyses, two of them without skills, are counted as three calls.
C8_Witness ==
    /\ Done(1)
    /\ Len(analyses) = 3
    /\ analyses[1].skills = <<>>
    /\ analyses[3].skills = <<>>
    /\ analyses[2].skills # <<>>
    /\ summary[1].total_calls_analyzed = 3

Permuted(an, p) == [i \in 1..Len(an) |-> an[p[i]]]

\* C9: two summarizations of the same analyses, sequential or interleaved,
\* return equal summaries; the summary is the same for every order of the
\* analyses; and no step of a summarization changes the analyses.
C9_PureAndOrderInsensitive ==
    /\ []((Done(1) /\ Done(2)) =>
            /\ summary[2] = summary[1]
            /\ \A p \in Permutations(1..Len(analyses)) :
                    get_skill_summary(Permuted(analyses, p)) = summary[1])
    /\ [][analyses' = analyses]_vars

\* Both invocations have returned, on analyses whose order matters to a
\* count that forgets earlier ratings.
C9_Witness ==
    /\ Done(1)
    /\ Done(2)
    /\ Len(analyses) = 3
    /\ analyses[1].skills = <<[name |-> "Rapport", effectiveness |-> "high"]>>
    /\ analyses[2].skills = <<[name |-> "Rapport", effectiveness |-> "low"]>>
    /\ analyses[3].skills = <<[name |-> "rapport", effectiveness |-> "medium"]>>
    /\ summary[1] = summary[2]

\* ------------------------------------------------------ batch loop claims

NoExtractionFailed == \A i \in 1..Len(extractions) : extractions[i].ok

\* The loop has run to its end: analyze_multiple_calls has returned its list
\* (entry "http"), the loop of main has built its list (entry "cli").
LoopOver == bpc \in {"returned", "done"}

\* C10: when no extraction fails, the batch loop calls analyze_call exactly
\* once per input record, in input order, and the list it returns has the
\* length of the input and holds at i the analysis produced for record i.
C10_OncePerRecordInOrder ==
    (LoopOver /\ NoExtractionFailed) =>
        /\ Len(extractions) = Len(calls)
        /\ Len(analyses) = Len(calls)
        /\ \A i \in 1..Len(calls) :
            /\ extractions[i].call_id = calls[i].call_id
            /\ extractions[i].transcript = calls[i].transcript
            /\ analyses[i] = extractions[i].analysis

\* analyze_multiple_calls has returned three analyses, the first two unlike.
C10_Witness ==
    /\ entry = "http"
    /\ bpc = "returned"
    /\ Len(calls) = 3
    /\ calls[1] # calls[2]
    /\ Len(analyses) = 3
    /\ analyses[1] # analyses[2]
    /\ NoExtractionFailed

\* The batch paths: the /analyze_calls_batch endpoint and the loop of main.
BatchEntry == entry \in {"http", "cli"}

\* C11: when the extraction of record k of a batch fails, the failure reaches
\* the caller (status 500, or the traceback that ends the CLI) and the batch
\* is aborted: record k is the last one analyze_call was invoked on, and the
\* caller gets no list of analyses and no summary.
C11_FailureAbortsBatch ==
    BatchEntry =>
        \A k \in 1..Len(extractions) :
            ~extractions[k].ok =>
                /\ k = Len(extractions)
                /\ k = idx + 1
                /\ extractions[k].call_id = calls[k].call_id
                /\ extractions[k].transcript = calls[k].transcript
                /\ bpc = "failed"
                /\ response.status \in {"500", "traceback"}
                /\ response.analyses = <<>>
                /\ response.summary = EmptyDict

\* The second of three records failed after the first gave an analysis with
\* a skill; the endpoint answered 500.
C11_Witness ==
    /\ entry = "http"
    /\ Len(calls) = 3
    /\ Len(extractions) = 2
    /\ extractions[1].ok
    /\ ~extractions[2].ok
    /\ Len(analyses) = 1
    /\ analyses[1].skills # <<>>
    /\ bpc = "failed"
    /\ response = [status |-> "500", analyses |-> <<>>, summary |-> EmptyDict]

\* C12: analyze_call is never invoked with an empty call_id or an empty
\* transcript, on any path: the /analyze_call endpoint, the records of a
\* /analyze_calls_batch request, the records the CLI loops over; and an
\* empty batch is turned down before any invocation.
C12_NoEmptyExtraction ==
    /\ \A i \in 1..Len(extractions) :
        /\ extractions[i].call_id # <<>>
        /\ extractions[i].transcript # <<>>
    /\ calls = <<>> => extractions = <<>>

\* ------------------------------------------------- markers in the records

\* C14: no record returned by load_transcriptions_from_file carries a
\* section marker: no call_id and no transcript contains ---CALL_ID:, no
\* call_id contains ---, and no transcript contains ---END---.
C14_NoMarkerInRecords ==
    lpc = "loaded" =>
        \A i \in 1..Len(calls) :
            /\ ~contains(calls[i].call_id, CALL_ID_MARKER)
            /\ ~contains(calls[i].transcript, CALL_ID_MARKER)
            /\ ~contains(calls[i].call_id, DASHES)
            /\ ~contains(calls[i].transcript, END_MARKER)

\* ------------------------------------------------ directory loader claims

\* The name's last four characters are ".txt".
IsTxtName(name) ==
    /\ Len(name) >= 4
    /\ <<name[Len(name) - 3], name[Len(name) - 2],
         name[Len(name) - 1], name[Len(name)]>> = <<".", "t", "x", "t">>

\* The records of the .txt files among the entries, file after file in the
\* order of the listing.
RECURSIVE TxtRecords(_)
TxtRecords(entries) ==
    IF entries = <<>> THEN <<>>
    ELSE (IF IsTxtName(Head(entries).name)
            THEN load_transcriptions_from_file(Head(entries).text)
            ELSE <<>>) \o TxtRecords(Tail(entries))

\* C13: for a directory that does not exist the function returns the empty
\* list (it raises nothing: it returns); otherwise it returns the records of
\* the files whose name ends in .txt, and of no other entry, concatenated in
\* the order of the listing, each file's records contiguous and in the
\* file's order.
C13_DirectoryConcatenation ==
    /\ (~directory.exists /\ dpc # "start") => (dpc = "returned" /\ calls = <<>>)
    /\ (directory.exists /\ dpc = "returned") => calls = TxtRecords(directory.entries)
    /\ (directory.exists /\ dpc = "loop") =>
            calls = TxtRecords(SubSeq(directory.entries, 1, dpos))

\* A listing of a.txt~ (skipped), then .txt with two records, then b.txt
\* with one: three records returned, those of .txt first.
C13_Witness ==
    /\ dpc = "returned"
    /\ directory.exists
    /\ Len(directory.entries) = 3
    /\ directory.entries[1].name = <<"a", ".", "t", "x", "t", "~">>
    /\ Len(load_transcriptions_from_file(directory.entries[1].text)) = 1
    /\ directory.entries[2].name = <<".", "t", "x", "t">>
    /\ directory.entries[3].name = <<"b", ".", "t", "x", "t">>
    /\ Len(calls) = 3
    /\ calls[1].call_id = <<"A">>
    /\ calls[2].call_id = <<"B">>
    /\ calls[3].call_id = <<"C">>

====
